---- MODULE Spec2Model ----
(***************************************************************************)
(* A model of the base64 engine of src/src/lib.rs and src/src/line_wrap.rs *)
(* (encode_config_buf, decode_config_buf, line_wrap_parameters, line_wrap).*)
(* Byte strings are sequences of numbers 0..255.  The code's indices are   *)
(* 0-based; sequences here are 1-based, so the code's s[i] is s[i + 1].    *)
(* A u64 is a sequence of 64 bits, most significant first.                 *)
(***************************************************************************)
EXTENDS Integers, Sequences, FiniteSets, TLC

VARIABLES
    input,   \* the bytes given to encode_config
    config,  \* the Config of the calls
    text,    \* the base64 text: encode_config's String, decode_config_buf's input
    prior,   \* what the buffer of the call held before it
    buffer,  \* the Vec<u8> given to decode_config_buf
    result,  \* what the decode call returned
    pc,      \* "start", "encoded", "text", "decoded", "panicked", "wrap", "sized"
    wrap_in, \* the arguments of line_wrap_parameters and of line_wrap
    wrap_out, \* the LineWrapParameters returned
    encoded_buf, \* line_wrap's buffer and locals: [mem, oob, panic, line_ending_bytes, written]
    line_num, \* line_wrap's loop counter
    plain, \* the String of encode_config under STANDARD, next to text under MIME
    size_in, \* the lengths the sizing of encode_config_buf starts from
    size_out, \* what that sizing computes
    config_args, \* the arguments of Config::new, or the preset used
    encode_out \* what encode_config_buf did: [panic, sized, oob, encoded_size,
               \* output_bytes_written, written]

\* the variables of a call of line_wrap
reflowVars == <<encoded_buf, line_num>>

\* the variables of the sizing of encode_config_buf
sizeVars == <<size_in, size_out>>

vars == <<input, config, text, prior, buffer, result, pc, wrap_in, wrap_out, reflowVars, plain, sizeVars, config_args, encode_out>>

(***************************************************************************)
(* Bounds of the model.                                                    *)
(***************************************************************************)
\* longest byte string given to encode_config
MaxLen == 15
\* byte strings up to this length are enumerated over all of ByteVals
MaxShort == 3
\* largest line width given to Config::new
MaxWidth == 4
\* number of byte streams the longer byte strings are cut from
NumStreams == 3
\* width of usize in bits
UsizeBits == 16
\* longest text given to decode_config_buf
MaxTextLen == 17
\* most '=' at the end of a text
MaxPads == 2
\* texts up to this length also get the rarer bytes
MaxShortText == 5
\* largest unwrapped length and line width given to line_wrap_parameters
MaxInputLen == 100
MaxLineLen == 20
\* largest unwrapped length and line width given to line_wrap
MaxReflowLen == 40
MaxReflowWidth == 9
\* most bytes the buffer given to line_wrap has beyond the wrapped length
MaxSlack == 1
\* longest byte string encoded under MIME
MaxMimeLen == 120
\* most bytes the buffer given to decode_config_buf already holds
MaxPrior == 3
\* longest input given to encode_config_buf under every Config
MaxBufInput == 26
\* the sizing is run on the lengths this close to 0 and to each length at which a
\* size passes the largest usize
SizeEdge == 8

(***************************************************************************)
(* Machine arithmetic.                                                     *)
(***************************************************************************)
Pow2 == [k \in 0..20 |-> 2 ^ k]

USIZE_MAX == Pow2[UsizeBits] - 1

NoneV == [some |-> FALSE, v |-> 0]

Some(x) == [some |-> TRUE, v |-> x]

\* checked_add with the bug of an addition that wraps
checked_add_Wrapping(a, b) == [some |-> TRUE, v |-> (a + b) % (USIZE_MAX + 1)]

\* usize::checked_add
checked_add(a, b) == IF b > USIZE_MAX - a THEN NoneV ELSE Some(a + b)

\* usize::checked_mul
checked_mul(a, b) == IF a # 0 /\ b > USIZE_MAX \div a THEN NoneV ELSE Some(a * b)

\* usize::saturating_sub
saturating_sub(a, b) == IF a < b THEN 0 ELSE a - b

\* bit j (0 = least significant) of the number n
BitOf(n, j) == (n \div Pow2[j]) % 2

\* u8 operators: <<, >>, |, &
Shl8(b, k) == (b * Pow2[k]) % 256

Shr8(b, k) == b \div Pow2[k]

RECURSIVE OrBits(_, _, _)
OrBits(a, b, j) ==
    IF j < 0 THEN 0
    ELSE (IF BitOf(a, j) = 1 \/ BitOf(b, j) = 1 THEN Pow2[j] ELSE 0) + OrBits(a, b, j - 1)

Or8(a, b) == OrBits(a, b, 7)

RECURSIVE AndBits(_, _, _)
AndBits(a, b, j) ==
    IF j < 0 THEN 0
    ELSE (IF BitOf(a, j) = 1 /\ BitOf(b, j) = 1 THEN Pow2[j] ELSE 0) + AndBits(a, b, j - 1)

And8(a, b) == AndBits(a, b, 7)

\* read_u64 with the bug of reading the slice least significant byte first
read_u64_LittleEndian(bytes) ==
    [i \in 1..64 |-> BitOf(bytes[8 - ((i - 1) \div 8)], 7 - ((i - 1) % 8))]

\* BigEndian::read_u64 of an 8-byte slice
read_u64(bytes) == [i \in 1..64 |-> BitOf(bytes[((i - 1) \div 8) + 1], 7 - ((i - 1) % 8))]

\* (x >> k) & (2^n - 1) of a u64 x, as a number (n <= 8)
RECURSIVE ShrMask(_, _, _)
ShrMask(x, k, n) ==
    IF n = 0 THEN 0
    ELSE (IF (n - 1) + k < 64 THEN x[64 - ((n - 1) + k)] * Pow2[n - 1] ELSE 0)
         + ShrMask(x, k, n - 1)

\* (m as u64) << s, for a u8 m
ShlU64(m, s) == [i \in 1..64 |-> IF i + s > 56 /\ i + s <= 64 THEN BitOf(m, 64 - (i + s)) ELSE 0]

\* x | y of two u64
OrU64(x, y) == [i \in 1..64 |-> IF x[i] = 1 \/ y[i] = 1 THEN 1 ELSE 0]

ZeroU64 == [i \in 1..64 |-> 0]

\* write_u64 with the bug of writing the least significant byte first
write_u64_LittleEndian(x) == [b \in 1..8 |-> ShrMask(x, 8 * (b - 1), 8)]

\* BigEndian::write_u64: the 8 bytes of x, most significant first
write_u64(x) == [b \in 1..8 |-> ShrMask(x, 56 - 8 * (b - 1), 8)]

(***************************************************************************)
(* Sequences as slices and buffers.                                        *)
(***************************************************************************)
\* the slice s[from..to] of the code
Slice(s, from, to) == SubSeq(s, from + 1, to)

\* a byte of memory that was reserved and never written
Uninit == 256

Fill(n, v) == [i \in 1..n |-> v]

\* ptr::write(p.offset(at), v) into the slice mem; oob marks a write outside it,
\* written collects the offsets written
PtrWrite(m, at, v) ==
    IF at >= 0 /\ at < Len(m.mem)
    THEN [m EXCEPT !.mem[at + 1] = v, !.written = @ \cup {at}]
    ELSE [m EXCEPT !.oob = TRUE, !.written = @ \cup {at}]

RECURSIVE PtrWriteAll(_, _, _)
PtrWriteAll(m, at, vs) ==
    IF vs = <<>> THEN m
    ELSE PtrWriteAll(PtrWrite(m, at, Head(vs)), at + 1, Tail(vs))

\* the bytes a copy that goes forward one byte at a time leaves: byte k of the block
\* is read after bytes 0..k-1 were written
RECURSIVE CopyForward(_, _, _, _, _)
CopyForward(mem, src, dst, n, k) ==
    IF k >= n THEN mem
    ELSE CopyForward([mem EXCEPT ![dst + k + 1] = mem[src + k + 1]], src, dst, n, k + 1)

\* PtrCopy with the bug of ptr::copy_nonoverlapping on ranges that overlap
PtrCopy_Forward(m, src, dst, n) ==
    IF src >= 0 /\ dst >= 0 /\ src + n <= Len(m.mem) /\ dst + n <= Len(m.mem)
    THEN [m EXCEPT !.mem = CopyForward(m.mem, src, dst, n, 0),
                   !.written = @ \cup (dst..(dst + n - 1))]
    ELSE [m EXCEPT !.oob = TRUE, !.written = @ \cup (dst..(dst + n - 1))]

\* ptr::copy(src, dst, n): memmove, the source is read before anything is written
PtrCopy(m, src, dst, n) ==
    IF src >= 0 /\ dst >= 0 /\ src + n <= Len(m.mem) /\ dst + n <= Len(m.mem)
    THEN [m EXCEPT !.mem = [i \in 1..Len(m.mem) |->
                               IF i > dst /\ i <= dst + n THEN m.mem[i - dst + src]
                               ELSE m.mem[i]],
                   !.written = @ \cup (dst..(dst + n - 1))]
    ELSE [m EXCEPT !.oob = TRUE, !.written = @ \cup (dst..(dst + n - 1))]

(***************************************************************************)
(* tables.rs: the alphabets.                                               *)
(***************************************************************************)
INVALID_VALUE == 255

PAD == 61

STANDARD_ENCODE ==
    [v \in 0..63 |-> IF v < 26 THEN 65 + v
                     ELSE IF v < 52 THEN 97 + (v - 26)
                     ELSE IF v < 62 THEN 48 + (v - 52)
                     ELSE IF v = 62 THEN 43 ELSE 47]

URL_SAFE_ENCODE ==
    [v \in 0..63 |-> IF v < 62 THEN STANDARD_ENCODE[v]
                     ELSE IF v = 62 THEN 45 ELSE 95]

DecodeTableOf(enc) ==
    [b \in 0..255 |-> IF \E v \in 0..63 : enc[v] = b
                      THEN CHOOSE v \in 0..63 : enc[v] = b
                      ELSE INVALID_VALUE]

STANDARD_DECODE == DecodeTableOf(STANDARD_ENCODE)

URL_SAFE_DECODE == DecodeTableOf(URL_SAFE_ENCODE)

encode_table(char_set) == IF char_set = "Standard" THEN STANDARD_ENCODE ELSE URL_SAFE_ENCODE

decode_table(char_set) == IF char_set = "Standard" THEN STANDARD_DECODE ELSE URL_SAFE_DECODE

(***************************************************************************)
(* Configuration.                                                          *)
(***************************************************************************)
NoWrap == [wrap |-> FALSE, line_len |-> 0, ending |-> "LF"]

Wrap(line_len, ending) == [wrap |-> TRUE, line_len |-> line_len, ending |-> ending]

\* LineEnding::len
LineEndingLen(ending) == IF ending = "LF" THEN 1 ELSE 2

LineEndingBytes(ending) == IF ending = "LF" THEN <<10>> ELSE <<13, 10>>

\* ConfigNew with the bug of keeping a line wrap of width 0
ConfigNew_KeepZero(char_set, pad, strip_whitespace, input_line_wrap) ==
    [char_set |-> char_set, pad |-> pad, strip_whitespace |-> strip_whitespace,
     line_wrap |-> input_line_wrap]

\* Config::new
ConfigNew(char_set, pad, strip_whitespace, input_line_wrap) ==
    [char_set |-> char_set,
     pad |-> pad,
     strip_whitespace |-> strip_whitespace,
     line_wrap |-> IF input_line_wrap.wrap /\ input_line_wrap.line_len = 0
                   THEN NoWrap ELSE input_line_wrap]

STANDARD ==
    [char_set |-> "Standard", pad |-> TRUE, strip_whitespace |-> FALSE, line_wrap |-> NoWrap]

MIME ==
    [char_set |-> "Standard", pad |-> TRUE, strip_whitespace |-> TRUE,
     line_wrap |-> Wrap(76, "CRLF")]

URL_SAFE ==
    [char_set |-> "UrlSafe", pad |-> TRUE, strip_whitespace |-> FALSE, line_wrap |-> NoWrap]

URL_SAFE_NO_PAD ==
    [char_set |-> "UrlSafe", pad |-> FALSE, strip_whitespace |-> FALSE, line_wrap |-> NoWrap]

(***************************************************************************)
(* line_wrap.rs                                                            *)
(***************************************************************************)
ISIZE_MAX == Pow2[UsizeBits - 1] - 1

\* ToPrimitive::to_isize of a usize
to_isize(o) == IF o.some /\ o.v <= ISIZE_MAX THEN o ELSE NoneV

LineWrapPanic ==
    [panic |-> TRUE, lines_with_endings |-> 0, last_line_len |-> 0,
     total_full_wrapped_lines_len |-> 0, total_len |-> 0, total_line_endings_len |-> 0]

\* NumLinesWithEndings with the bug of ending the last full line too
NumLinesWithEndings_EveryLine(input_len, line_len) == input_len \div line_len

\* the pair (num_lines_with_endings, last_line_length) of line_wrap_parameters
NumLinesWithEndings(input_len, line_len) ==
    IF input_len % line_len > 0 THEN input_len \div line_len
    ELSE input_len \div line_len - 1

LastLineLength(input_len, line_len) ==
    IF input_len % line_len > 0 THEN input_len % line_len ELSE line_len

line_wrap_parameters(input_len, line_len, line_ending) ==
    LET line_ending_len == LineEndingLen(line_ending) IN
    IF input_len <= line_len
    THEN [panic |-> FALSE, lines_with_endings |-> 0, last_line_len |-> input_len,
          total_full_wrapped_lines_len |-> 0, total_len |-> input_len,
          total_line_endings_len |-> 0]
    ELSE IF line_len = 0 THEN LineWrapPanic
    ELSE
      LET num_lines_with_endings == NumLinesWithEndings(input_len, line_len)
          last_line_length == LastLineLength(input_len, line_len)
          single_full_line_with_ending_len == checked_add(line_len, line_ending_len)
          total_full_wrapped_lines_len ==
              IF single_full_line_with_ending_len.some
              THEN checked_mul(num_lines_with_endings, single_full_line_with_ending_len.v)
              ELSE NoneV
          total_all_wrapped_len ==
              IF total_full_wrapped_lines_len.some
              THEN checked_add(total_full_wrapped_lines_len.v, last_line_length)
              ELSE NoneV
          total_line_endings_len == checked_mul(num_lines_with_endings, line_ending_len)
      IN IF single_full_line_with_ending_len.some /\ total_full_wrapped_lines_len.some
            /\ total_all_wrapped_len.some /\ total_line_endings_len.some
         THEN [panic |-> FALSE,
               lines_with_endings |-> num_lines_with_endings,
               last_line_len |-> last_line_length,
               total_full_wrapped_lines_len |-> total_full_wrapped_lines_len.v,
               total_len |-> total_all_wrapped_len.v,
               total_line_endings_len |-> total_line_endings_len.v]
         ELSE LineWrapPanic

\* LinesBeforeThisLine with the bug of taking the full lines from first to last
LinesBeforeThisLine_Forward(params, ln) == ln

\* lines_before_this_line of the loop of line_wrap
LinesBeforeThisLine(params, ln) == params.lines_with_endings - 1 - ln

\* the offset of the last line before line_wrap moves it
LastLineStart(params, line_len) == to_isize(checked_mul(params.lines_with_endings, line_len))

\* NewLastLineStart with the bug of leaving the last line where it was
NewLastLineStart_Unmoved(params) ==
    to_isize(Some(params.total_full_wrapped_lines_len - params.total_line_endings_len))

\* the offset line_wrap moves the last line to
NewLastLineStart(params) == to_isize(Some(params.total_full_wrapped_lines_len))

\* line_start_offset of full line ln, which is where orig_line_start points
LineStartOffset(params, ln, line_len) ==
    to_isize(checked_mul(LinesBeforeThisLine(params, ln), line_len))

\* total_endings_to_insert_before_this_line of full line ln
EndingsBeforeLine(params, ln, line_ending) ==
    to_isize(checked_mul(LinesBeforeThisLine(params, ln), LineEndingLen(line_ending)))

\* line_wrap up to the move of the last line: the assertion on the buffer's length,
\* then the ptr::copy; st = [mem, oob, panic, line_ending_bytes, written]
LineWrapLastLine(st0, params, line_len) ==
    IF params.panic \/ ~(Len(st0.mem) >= params.total_len)
    THEN [st0 EXCEPT !.panic = TRUE]
    ELSE IF ~LastLineStart(params, line_len).some \/ ~NewLastLineStart(params).some
    THEN [st0 EXCEPT !.panic = TRUE]
    ELSE PtrCopy(st0, LastLineStart(params, line_len).v, NewLastLineStart(params).v,
                 params.last_line_len)

\* line_len_isize, computed between the move of the last line and the loop
LineWrapLenIsize(moved, line_len) ==
    IF moved.panic \/ ~to_isize(Some(line_len)).some
    THEN [moved EXCEPT !.panic = TRUE]
    ELSE moved

\* the copy of a full line, then the write of its ending
LineWrapCopyLine(st, orig_line_start, new_line_start, line_len, line_ending) ==
    [PtrWriteAll(PtrCopy(st, orig_line_start, new_line_start, line_len),
                 new_line_start + line_len, LineEndingBytes(line_ending))
     EXCEPT !.line_ending_bytes = @ + LineEndingLen(line_ending)]

\* one round of the loop of line_wrap, for full line ln
LineWrapLine(st, ln, params, line_len, line_ending) ==
    IF ~LineStartOffset(params, ln, line_len).some
       \/ ~EndingsBeforeLine(params, ln, line_ending).some
    THEN [st EXCEPT !.panic = TRUE]
    ELSE LineWrapCopyLine(st, LineStartOffset(params, ln, line_len).v,
                          LineStartOffset(params, ln, line_len).v
                          + EndingsBeforeLine(params, ln, line_ending).v,
                          line_len, line_ending)

\* the loop over the full lines of line_wrap, from the last full line to the first
RECURSIVE LineWrapLoop(_, _, _, _, _)
LineWrapLoop(st, ln, params, line_len, line_ending) ==
    IF ln >= params.lines_with_endings \/ st.panic THEN st
    ELSE LineWrapLoop(LineWrapLine(st, ln, params, line_len, line_ending),
                      ln + 1, params, line_len, line_ending)

\* the end of line_wrap: the assertion on the line ending bytes written
LineWrapAssert(params, done) ==
    IF done.panic \/ params.total_line_endings_len # done.line_ending_bytes
    THEN [done EXCEPT !.panic = TRUE]
    ELSE done

\* line_wrap once the last line was moved
LineWrapFullLines(params, moved, line_len, line_ending) ==
    LineWrapAssert(params, LineWrapLoop(LineWrapLenIsize(moved, line_len), 0, params,
                                        line_len, line_ending))

\* line_wrap from the assertion on the buffer's length on
LineWrapSized(st0, params, line_len, line_ending) ==
    LineWrapFullLines(params, LineWrapLastLine(st0, params, line_len), line_len, line_ending)

\* the buffer of line_wrap when it is entered
LineWrapEntry(encoded_buf_bytes) ==
    [mem |-> encoded_buf_bytes, oob |-> FALSE, panic |-> FALSE, line_ending_bytes |-> 0,
     written |-> {}]

\* line_wrap(encoded_buf, input_len, line_len, line_ending):
\* [mem, oob, panic, line_ending_bytes, written], line_ending_bytes being the value returned
line_wrap(encoded_buf_bytes, input_len, line_len, line_ending) ==
    LineWrapSized(LineWrapEntry(encoded_buf_bytes),
                  line_wrap_parameters(input_len, line_len, line_ending),
                  line_len, line_ending)

(***************************************************************************)
(* lib.rs: encoding.                                                       *)
(***************************************************************************)
\* EncodedLenNoWrap with the bug of counting no character for the incomplete chunk
\* of an encoding without padding
EncodedLenNoWrap_CompleteChunksOnly(bytes_len, cfg) ==
    LET complete_chunk_output == checked_mul(bytes_len \div 3, 4) IN
    IF bytes_len % 3 > 0 /\ cfg.pad /\ complete_chunk_output.some
    THEN checked_add(complete_chunk_output.v, 4)
    ELSE complete_chunk_output

\* encoded_len_no_wrap of encoded_size
EncodedLenNoWrap(bytes_len, cfg) ==
    LET rem == bytes_len % 3
        complete_input_chunks == bytes_len \div 3
        complete_chunk_output == checked_mul(complete_input_chunks, 4)
        encoded_len_no_wrap ==
            IF rem > 0
            THEN IF cfg.pad
                 THEN IF complete_chunk_output.some
                      THEN checked_add(complete_chunk_output.v, 4) ELSE NoneV
                 ELSE IF complete_chunk_output.some
                      THEN checked_add(complete_chunk_output.v, IF rem = 1 THEN 2 ELSE 3)
                      ELSE NoneV
            ELSE complete_chunk_output
    IN encoded_len_no_wrap

\* encoded_size: [panic, some, v]
encoded_size(bytes_len, cfg) ==
    LET encoded_len_no_wrap == EncodedLenNoWrap(bytes_len, cfg)
    IN IF ~encoded_len_no_wrap.some THEN [panic |-> FALSE, some |-> FALSE, v |-> 0]
       ELSE IF ~cfg.line_wrap.wrap
            THEN [panic |-> FALSE, some |-> TRUE, v |-> encoded_len_no_wrap.v]
            ELSE LET p == line_wrap_parameters(encoded_len_no_wrap.v,
                                               cfg.line_wrap.line_len, cfg.line_wrap.ending)
                 IN [panic |-> p.panic, some |-> TRUE, v |-> p.total_len]

\* the fast loop of encode_to_slice: one 8-byte read and 8 characters per round;
\* st = [mem, oob, panic, input_index, output_ptr]
RECURSIVE EncodeFastLoop(_, _, _, _)
EncodeFastLoop(st, inp, last_fast_index, table) ==
    IF ~(st.input_index <= last_fast_index) \/ st.panic THEN st
    ELSE IF st.input_index + 8 > Len(inp) THEN [st EXCEPT !.panic = TRUE]
    ELSE
      LET input_chunk == read_u64(Slice(inp, st.input_index, st.input_index + 8))
          wrote == PtrWriteAll(st, st.output_ptr,
                       <<table[ShrMask(input_chunk, 58, 6)],
                         table[ShrMask(input_chunk, 52, 6)],
                         table[ShrMask(input_chunk, 46, 6)],
                         table[ShrMask(input_chunk, 40, 6)],
                         table[ShrMask(input_chunk, 34, 6)],
                         table[ShrMask(input_chunk, 28, 6)],
                         table[ShrMask(input_chunk, 22, 6)],
                         table[ShrMask(input_chunk, 16, 6)]>>)
      IN EncodeFastLoop([wrote EXCEPT !.output_ptr = @ + 8, !.input_index = @ + 6],
                        inp, last_fast_index, table)

\* the loop of encode_to_slice over the complete 3-byte groups the fast loop left
RECURSIVE EncodeSlowLoop(_, _, _, _)
EncodeSlowLoop(st, inp, start_of_rem, table) ==
    IF ~(st.input_index < start_of_rem) \/ st.panic THEN st
    ELSE IF st.input_index + 2 >= Len(inp) THEN [st EXCEPT !.panic = TRUE]
    ELSE
      LET b0 == inp[st.input_index + 1]
          b1 == inp[st.input_index + 2]
          b2 == inp[st.input_index + 3]
          wrote == PtrWriteAll(st, st.output_ptr,
                       <<table[Shr8(b0, 2)],
                         table[And8(Or8(Shl8(b0, 4), Shr8(b1, 4)), 63)],
                         table[And8(Or8(Shl8(b1, 2), Shr8(b2, 6)), 63)],
                         table[And8(b2, 63)]>>)
      IN EncodeSlowLoop([wrote EXCEPT !.output_ptr = @ + 4, !.input_index = @ + 3],
                        inp, start_of_rem, table)

\* the end of encode_to_slice: the 2 or 1 bytes after the last complete group
EncodeRemainder(slow, inp, start_of_rem, rem, table) ==
    IF slow.panic THEN slow
    ELSE IF rem = 2
    THEN [PtrWriteAll(slow, slow.output_ptr,
              <<table[Shr8(inp[start_of_rem + 1], 2)],
                table[And8(Or8(Shl8(inp[start_of_rem + 1], 4),
                               Shr8(inp[start_of_rem + 2], 4)), 63)],
                table[And8(Shl8(inp[start_of_rem + 2], 2), 63)]>>)
          EXCEPT !.output_ptr = @ + 3]
    ELSE IF rem = 1
    THEN [PtrWriteAll(slow, slow.output_ptr,
              <<table[Shr8(inp[start_of_rem + 1], 2)],
                table[And8(Shl8(inp[start_of_rem + 1], 4), 63)]>>)
          EXCEPT !.output_ptr = @ + 2]
    ELSE slow

\* encode_to_slice(input, output, encode_table): [mem, oob, panic, input_index, output_ptr],
\* output_ptr being the number of bytes written, which the code returns
encode_to_slice(inp, output, table) ==
    LET st0 == [mem |-> output, oob |-> FALSE, panic |-> FALSE,
                input_index |-> 0, output_ptr |-> 0, written |-> {}]
        last_fast_index == saturating_sub(Len(inp), 8)
        rem == Len(inp) % 3
        start_of_rem == Len(inp) - rem
    IN EncodeRemainder(
           EncodeSlowLoop(IF last_fast_index > 0
                          THEN EncodeFastLoop(st0, inp, last_fast_index, table) ELSE st0,
                          inp, start_of_rem, table),
           inp, start_of_rem, rem, table)

\* add_padding(input_len, output), output being the slice mem[at..]: the writes are
\* bounds-checked; [mem, panic, bytes_written]
RECURSIVE PaddingLoop(_, _, _)
PaddingLoop(st, at, n) ==
    IF n = 0 \/ st.panic THEN st
    ELSE IF at + st.bytes_written >= Len(st.mem) THEN [st EXCEPT !.panic = TRUE]
    ELSE PaddingLoop([st EXCEPT !.mem[at + st.bytes_written + 1] = PAD,
                                !.bytes_written = @ + 1], at, n - 1)

\* add_padding with the bug of writing input_len % 3 pad characters
add_padding_RemPads(input_len, mem, at) ==
    IF at > Len(mem) THEN [mem |-> mem, panic |-> TRUE, bytes_written |-> 0]
    ELSE PaddingLoop([mem |-> mem, panic |-> FALSE, bytes_written |-> 0], at, input_len % 3)

add_padding(input_len, mem, at) ==
    LET rem == input_len % 3 IN
    IF at > Len(mem) THEN [mem |-> mem, panic |-> TRUE, bytes_written |-> 0]
    ELSE PaddingLoop([mem |-> mem, panic |-> FALSE, bytes_written |-> 0], at, (3 - rem) % 3)

\* a failed expect or assert of encode_config_buf; sized says whether the expects
\* on the size had passed, written holds the offsets written after orig_buf_len
EncodePanic(buf) ==
    [panic |-> TRUE, oob |-> FALSE, buf |-> buf, sized |-> TRUE, encoded_size |-> 0,
     output_bytes_written |-> 0, written |-> {}]

\* the end of encode_config_buf: the length written and the final set_len
EncodeSetLen(buf, size, wrappable_bytes, enc_oob, enc_written, wrapped) ==
    LET output_bytes_written == checked_add(wrappable_bytes, wrapped.line_ending_bytes) IN
    IF wrapped.panic \/ ~output_bytes_written.some
       \/ ~checked_add(Len(buf), output_bytes_written.v).some
    THEN [EncodePanic(buf) EXCEPT !.oob = enc_oob \/ wrapped.oob, !.encoded_size = size,
                                  !.written = enc_written \cup wrapped.written]
    ELSE [panic |-> FALSE,
          sized |-> TRUE,
          encoded_size |-> size,
          output_bytes_written |-> output_bytes_written.v,
          written |-> enc_written \cup wrapped.written,
          oob |-> enc_oob \/ wrapped.oob \/ output_bytes_written.v > size,
          buf |-> buf \o Slice(wrapped.mem, 0,
                               IF output_bytes_written.v <= Len(wrapped.mem)
                               THEN output_bytes_written.v ELSE Len(wrapped.mem))]

\* encode_config_buf once the padding is written: the line wrap
EncodeLineWrap(cfg, buf, size, enc, padded) ==
    LET wrappable_bytes == checked_add(enc.output_ptr, padded.bytes_written) IN
    IF enc.panic \/ padded.panic \/ ~wrappable_bytes.some
    THEN [EncodePanic(buf) EXCEPT !.oob = enc.oob, !.encoded_size = size,
                                  !.written = enc.written]
    ELSE EncodeSetLen(buf, size, wrappable_bytes.v, enc.oob,
                      enc.written
                      \cup (enc.output_ptr..(enc.output_ptr + padded.bytes_written - 1)),
                      IF cfg.line_wrap.wrap
                      THEN line_wrap(padded.mem, wrappable_bytes.v,
                                     cfg.line_wrap.line_len, cfg.line_wrap.ending)
                      ELSE LineWrapEntry(padded.mem))

\* encode_config_buf once the characters are written: the padding
EncodePadding(inp, cfg, buf, size, enc) ==
    EncodeLineWrap(cfg, buf, size, enc,
                   IF cfg.pad /\ ~enc.panic
                   THEN add_padding(Len(inp), enc.mem, enc.output_ptr)
                   ELSE [mem |-> enc.mem, panic |-> FALSE, bytes_written |-> 0])

\* the length encode_config_buf gives the String before it writes: None stands for
\* a failed expect
ExpandedLen(orig_buf_len, size) ==
    IF size.panic \/ ~size.some THEN NoneV ELSE checked_add(orig_buf_len, size.v)

\* encode_config_buf once the size is known: set_len, then the characters
EncodeSized(inp, cfg, buf, size) ==
    IF ~ExpandedLen(Len(buf), size).some
    THEN [EncodePanic(buf) EXCEPT !.sized = FALSE]
    ELSE EncodePadding(inp, cfg, buf, size.v,
                       encode_to_slice(inp, Fill(size.v, Uninit),
                                       encode_table(cfg.char_set)))

\* encode_config_buf(input, config, buf): [panic, oob, buf], buf being the String after
\* the call
encode_config_buf(inp, cfg, buf) == EncodeSized(inp, cfg, buf, encoded_size(Len(inp), cfg))

\* encode_config(input, config)
encode_config(inp, cfg) == encode_config_buf(inp, cfg, <<>>)

(***************************************************************************)
(* lib.rs: decoding.                                                       *)
(***************************************************************************)
Ok == [tag |-> "Ok", offset |-> 0, byte |-> 0]

InvalidByte(offset, byte) == [tag |-> "InvalidByte", offset |-> offset, byte |-> byte]

InvalidLength == [tag |-> "InvalidLength", offset |-> 0, byte |-> 0]

Panicked == [tag |-> "Panic", offset |-> 0, byte |-> 0]

\* Whitespace with the bug of leaving out the vertical tab
Whitespace_NoVerticalTab == {32, 10, 9, 13, 12}

\* the bytes that strip_whitespace removes: b" \n\t\r\x0b\x0c"
Whitespace == {32, 10, 9, 13, 11, 12}

IsWhitespace(b) == b \in Whitespace

\* the filter of decode_config_buf under strip_whitespace
StripWhitespace(inp) == SelectSeq(inp, LAMBDA b : ~IsWhitespace(b))

\* InputBytes with the bug of dropping '=' when the Config does not pad
InputBytes_PadAware(inp, cfg) ==
    LET t == IF cfg.strip_whitespace THEN SelectSeq(inp, LAMBDA b : ~IsWhitespace(b)) ELSE inp
    IN IF cfg.pad THEN t ELSE SelectSeq(t, LAMBDA b : b # PAD)

\* input_bytes of decode_config_buf: the input, filtered under strip_whitespace
InputBytes(inp, cfg) == IF cfg.strip_whitespace THEN StripWhitespace(inp) ELSE inp

\* FastLoopError with the bug of reporting the start of the chunk
FastLoopError_ChunkStart(fast, input_bytes) ==
    InvalidByte(fast.input_index, input_bytes[fast.input_index + 1])

\* the error returned when the fast loop was left by a break
FastLoopError(fast, input_bytes) ==
    InvalidByte(fast.bad_byte_index, input_bytes[fast.bad_byte_index + 1])

\* PadMisplaced with the bug of refusing '=' only at the start of a quad
PadMisplaced_FirstOnly(i) == i % 4 < 1

\* a '=' at index i of the trailing chunk cannot start a quad or be its second byte
PadMisplaced(i) == i % 4 < 2

\* PadNotSuffixError with the bug of reporting the offset of the byte after the padding
PadNotSuffixError_AtByte(length_of_full_chunks, st) ==
    InvalidByte(length_of_full_chunks + st.i, PAD)

\* the error returned for a byte other than '=' after padding
PadNotSuffixError(length_of_full_chunks, st) ==
    InvalidByte(length_of_full_chunks + st.first_padding_index, PAD)

\* the 8 probes of one round of the fast loop, byte k of the chunk at a time;
\* pr = [morsel, accum, bad, k]: bad is set when a probe finds INVALID_VALUE
RECURSIVE DecodeProbes(_, _, _)
DecodeProbes(pr, input_chunk, table) ==
    IF pr.k = 8 THEN pr
    ELSE
      LET morsel == table[ShrMask(input_chunk, 56 - 8 * pr.k, 8)] IN
      IF morsel = INVALID_VALUE
      THEN [pr EXCEPT !.morsel = morsel, !.bad = TRUE]
      ELSE DecodeProbes([pr EXCEPT !.morsel = morsel,
                                   !.accum = OrU64(@, ShlU64(morsel, 58 - 6 * pr.k)),
                                   !.k = @ + 1],
                        input_chunk, table)

\* the fast loop of decode_config_buf;
\* st = [buf, input_index, output_index, morsel, bad_byte_index, panic]
RECURSIVE DecodeFastLoop(_, _, _, _)
DecodeFastLoop(st, input_bytes, length_of_full_chunks, table) ==
    IF ~(st.input_index < length_of_full_chunks) \/ st.panic THEN st
    ELSE IF st.input_index + 8 > Len(input_bytes) THEN [st EXCEPT !.panic = TRUE]
    ELSE
      LET input_chunk == read_u64(Slice(input_bytes, st.input_index, st.input_index + 8))
          pr == DecodeProbes([morsel |-> st.morsel, accum |-> ZeroU64, bad |-> FALSE, k |-> 0],
                             input_chunk, table)
      IN IF pr.bad
         THEN [st EXCEPT !.morsel = pr.morsel, !.bad_byte_index = st.input_index + pr.k]
         ELSE IF st.output_index + 8 > Len(st.buf)
         THEN [st EXCEPT !.morsel = pr.morsel, !.panic = TRUE]
         ELSE DecodeFastLoop(
                  [st EXCEPT !.morsel = pr.morsel,
                             !.buf = Slice(st.buf, 0, st.output_index) \o write_u64(pr.accum)
                                     \o Slice(st.buf, st.output_index + 8, Len(st.buf)),
                             !.output_index = @ + 6,
                             !.input_index = @ + 8],
                  input_bytes, length_of_full_chunks, table)

\* the loop of decode_config_buf over the trailing chunk, byte i of it at a time;
\* st = [i, leftover_bits, morsels_in_leftover, padding_bytes, first_padding_index, err]:
\* err.tag is "Ok" until the loop returns an error
RECURSIVE DecodeTrailingLoop(_, _, _, _)
DecodeTrailingLoop(st, input_bytes, length_of_full_chunks, table) ==
    IF length_of_full_chunks + st.i >= Len(input_bytes) \/ st.err.tag # "Ok" THEN st
    ELSE
      LET b == input_bytes[length_of_full_chunks + st.i + 1] IN
      IF b = PAD
      THEN IF PadMisplaced(st.i)
           THEN [st EXCEPT !.err = InvalidByte(length_of_full_chunks + st.i, b)]
           ELSE DecodeTrailingLoop(
                    [st EXCEPT !.first_padding_index =
                                   IF st.padding_bytes = 0 THEN st.i ELSE @,
                               !.padding_bytes = @ + 1,
                               !.i = @ + 1],
                    input_bytes, length_of_full_chunks, table)
      ELSE IF st.padding_bytes > 0
      THEN [st EXCEPT !.err = PadNotSuffixError(length_of_full_chunks, st)]
      ELSE
        LET shift == 64 - (st.morsels_in_leftover + 1) * 6
            morsel == table[b]
        IN IF morsel = INVALID_VALUE
           THEN [st EXCEPT !.err = InvalidByte(length_of_full_chunks + st.i, b)]
           ELSE IF shift < 0 THEN [st EXCEPT !.err = Panicked]
           ELSE DecodeTrailingLoop(
                    [st EXCEPT !.leftover_bits = OrU64(@, ShlU64(morsel, shift)),
                               !.morsels_in_leftover = @ + 1,
                               !.i = @ + 1],
                    input_bytes, length_of_full_chunks, table)

\* LeftoverBitsReady with the bug of taking 5 morsels for 32 bits
LeftoverBitsReady_FiveAccepted(morsels_in_leftover) ==
    CASE morsels_in_leftover = 0 -> 0
      [] morsels_in_leftover = 1 -> -1
      [] morsels_in_leftover = 2 -> 8
      [] morsels_in_leftover = 3 -> 16
      [] morsels_in_leftover = 4 -> 24
      [] morsels_in_leftover = 5 -> 32
      [] morsels_in_leftover = 6 -> 32
      [] morsels_in_leftover = 7 -> 40
      [] morsels_in_leftover = 8 -> 48
      [] OTHER -> -2

\* the match on morsels_in_leftover: the number of bits to append, -1 for
\* InvalidLength, -2 for the arm that panics
LeftoverBitsReady(morsels_in_leftover) ==
    CASE morsels_in_leftover = 0 -> 0
      [] morsels_in_leftover = 1 -> -1
      [] morsels_in_leftover = 2 -> 8
      [] morsels_in_leftover = 3 -> 16
      [] morsels_in_leftover = 4 -> 24
      [] morsels_in_leftover = 5 -> -1
      [] morsels_in_leftover = 6 -> 32
      [] morsels_in_leftover = 7 -> 40
      [] morsels_in_leftover = 8 -> 48
      [] OTHER -> -2

\* the loop that pushes the leftover bits, 8 at a time
RECURSIVE AppendLeftover(_, _, _, _)
AppendLeftover(buf, leftover_bits, appended, ready) ==
    IF ~(appended < ready) THEN buf
    ELSE AppendLeftover(Append(buf, ShrMask(leftover_bits, 56 - appended, 8)),
                        leftover_bits, appended + 8, ready)

\* TruncateNewLen with the bug of keeping the two bytes of overhang
TruncateNewLen_KeepOverhang(buffer_len, chunk_len, decoded_chunk_len) == buffer_len

\* new_len of the truncate after the fast loop
TruncateNewLen(buffer_len, chunk_len, decoded_chunk_len) ==
    buffer_len - (chunk_len - decoded_chunk_len)

\* input_bytes.len() * 3 / 4 of the reserve, a usize multiplication that is not
\* checked: overflow says that the product is above the largest usize, v is the
\* value of a build that wraps
DecodeReserve(input_len) ==
    [overflow |-> input_len * 3 > USIZE_MAX,
     v |-> ((input_len * 3) % (USIZE_MAX + 1)) \div 4]

\* length_of_full_chunks: the input without its trailing chunk
LengthOfFullChunks(input_len) ==
    LET chunk_len == 8
        remainder_len == input_len % chunk_len
        trailing_bytes_to_skip == IF remainder_len = 0 THEN chunk_len ELSE remainder_len
    IN saturating_sub(input_len, trailing_bytes_to_skip)

\* decode_config_buf after the reserve; overflow is handed through to the result
DecodeReserved(inp, cfg, buf, overflow) ==
    LET input_bytes == InputBytes(inp, cfg)
        table == decode_table(cfg.char_set)
        chunk_len == 8
        decoded_chunk_len == 6
        length_of_full_chunks == LengthOfFullChunks(Len(input_bytes))
        starting_output_index == Len(buf)
        new_size == starting_output_index
                    + (length_of_full_chunks \div chunk_len) * decoded_chunk_len
                    + (chunk_len - decoded_chunk_len)
        resized == buf \o Fill(new_size - starting_output_index, 0)
        fast == DecodeFastLoop([buf |-> resized, input_index |-> 0,
                                output_index |-> starting_output_index,
                                morsel |-> 0, bad_byte_index |-> 0, panic |-> FALSE],
                               input_bytes, length_of_full_chunks, table)
    IN IF fast.panic THEN [res |-> Panicked, buf |-> fast.buf, overflow |-> overflow]
       ELSE IF fast.morsel = INVALID_VALUE
       THEN [res |-> FastLoopError(fast, input_bytes), buf |-> fast.buf,
             overflow |-> overflow]
       ELSE IF Len(fast.buf) < chunk_len - decoded_chunk_len
       THEN [res |-> Panicked, buf |-> fast.buf, overflow |-> overflow]
       ELSE
         LET truncated == Slice(fast.buf, 0, TruncateNewLen(Len(fast.buf), chunk_len,
                                                           decoded_chunk_len))
             trail == DecodeTrailingLoop(
                          [i |-> 0, leftover_bits |-> ZeroU64, morsels_in_leftover |-> 0,
                           padding_bytes |-> 0, first_padding_index |-> 0, err |-> Ok],
                          input_bytes, length_of_full_chunks, table)
             ready == LeftoverBitsReady(trail.morsels_in_leftover)
         IN IF trail.err.tag # "Ok"
            THEN [res |-> trail.err, buf |-> truncated, overflow |-> overflow]
            ELSE IF ready = -1
            THEN [res |-> InvalidLength, buf |-> truncated, overflow |-> overflow]
            ELSE IF ready = -2
            THEN [res |-> Panicked, buf |-> truncated, overflow |-> overflow]
            ELSE [res |-> Ok,
                  buf |-> AppendLeftover(truncated, trail.leftover_bits, 0, ready),
                  overflow |-> overflow]

\* decode_config_buf(input, config, buffer): [res, buf, overflow], the value returned
\* and the caller's buffer after the call. The multiplication of the reserve is not
\* checked: when overflow is set, res and buf are those of a build that wraps on
\* arithmetic overflow, and a build that checks it panics in the reserve, before the
\* buffer is touched.
decode_config_buf(inp, cfg, buf) ==
    DecodeReserved(inp, cfg, buf, DecodeReserve(Len(InputBytes(inp, cfg))).overflow)

\* decode_config(input, config): [res, bytes, overflow], bytes being the Vec of Ok(bytes)
decode_config(inp, cfg) ==
    LET r == decode_config_buf(inp, cfg, <<>>) IN
    [res |-> r.res, bytes |-> IF r.res.tag = "Ok" THEN r.buf ELSE <<>>,
     overflow |-> r.overflow]

(***************************************************************************)
(* The calls: encode_config then decode_config on byte strings.            *)
(***************************************************************************)
NoResult == [tag |-> "None", offset |-> 0, byte |-> 0]

\* the byte values of the short byte strings: 0, 'f', 'o', 0xFF
ByteVals == {0, 102, 111, 255}

RECURSIVE SeqsOfLen(_, _)
SeqsOfLen(S, n) ==
    IF n = 0 THEN {<<>>}
    ELSE {Append(q, x) : q \in SeqsOfLen(S, n - 1), x \in S}

SeqsUpTo(S, n) == UNION {SeqsOfLen(S, k) : k \in 0..n}

\* byte i of stream s
StreamByte(s, i) == (s * 101 + i * 59 + (i \div 3) * 7) % 256

EncodeInputs ==
    SeqsUpTo(ByteVals, MaxShort)
    \cup {[i \in 1..n |-> StreamByte(s, i)] : n \in (MaxShort + 1)..MaxLen, s \in 0..(NumStreams - 1)}

CharacterSets == {"Standard", "UrlSafe"}

LineEndings == {"LF", "CRLF"}

LineWraps == {NoWrap} \cup {Wrap(w, e) : w \in 0..MaxWidth, e \in LineEndings}

\* the Configs of the public interface
Configs ==
    {ConfigNew(c, p, s, w) : c \in CharacterSets, p \in BOOLEAN, s \in BOOLEAN, w \in LineWraps}
    \cup {STANDARD, MIME, URL_SAFE, URL_SAFE_NO_PAD}

NoWrapIn == [input_len |-> 0, line_len |-> 0, line_ending |-> "LF"]

NoSizeIn == [bytes_len |-> 0, orig_buf_len |-> 0]

\* no Config built yet, no arguments recorded
NoConfig ==
    [char_set |-> "None", pad |-> FALSE, strip_whitespace |-> FALSE, line_wrap |-> NoWrap]


NoParams == [LineWrapPanic EXCEPT !.panic = FALSE]

\* encode_config_buf not called yet
NoEncodeOut ==
    [panic |-> FALSE, sized |-> FALSE, oob |-> FALSE, encoded_size |-> 0,
     output_bytes_written |-> 0, written |-> {}]

NoSizeOut ==
    [panic |-> FALSE, encoded_size |-> 0, expanded |-> 0, params |-> NoParams,
     sizing_calls |-> <<>>]

Init ==
    /\ input \in EncodeInputs
    /\ config \in Configs
    /\ text = <<>>
    /\ prior = <<>>
    /\ buffer = <<>>
    /\ result = NoResult
    /\ pc = "start"
    /\ wrap_in = NoWrapIn
    /\ wrap_out = NoParams
    /\ encoded_buf = LineWrapEntry(<<>>)
    /\ line_num = 0
    /\ plain = <<>>
    /\ size_in = NoSizeIn
    /\ size_out = NoSizeOut
    /\ config_args = NoConfig
    /\ encode_out = NoEncodeOut

\* encode_config(input, config)
EncodeConfig ==
    /\ pc = "start"
    /\ LET e == encode_config(input, config) IN
         /\ text' = e.buf
         /\ pc' = IF e.panic THEN "panicked" ELSE "encoded"
    /\ UNCHANGED <<input, config, prior, buffer, result, wrap_in, wrap_out, reflowVars, plain, sizeVars, config_args, encode_out>>

\* decode_config(text, config) of the encoded text
DecodeConfig ==
    /\ pc = "encoded"
    /\ \E d \in {decode_config(text, config)}, overflow_checks \in BOOLEAN :
         /\ result' = IF d.overflow /\ overflow_checks THEN Panicked ELSE d.res
         /\ buffer' = IF d.overflow /\ overflow_checks THEN buffer ELSE d.bytes
    /\ pc' = "decoded"
    /\ UNCHANGED <<input, config, text, prior, wrap_in, wrap_out, reflowVars, plain, sizeVars, config_args, encode_out>>

Next == EncodeConfig \/ DecodeConfig

Spec == Init /\ [][Next]_vars

(***************************************************************************)
(* The calls: decode_config_buf on texts that need not be encodings.       *)
(***************************************************************************)
\* character i of the texts: letters and digits, which both alphabets hold
AlphaChar(i) == STANDARD_ENCODE[(i * 23 + 5) % 62]

BaseText(n) == [i \in 1..n |-> AlphaChar(i)]

\* t with its last k bytes turned into '='
Padded(t, k) == [i \in 1..Len(t) |-> IF i > Len(t) - k THEN PAD ELSE t[i]]

\* '=', '#', '+', '-', space, LF
EditBytes == {61, 35, 43, 45, 32, 10}

\* the other whitespace bytes, their neighbours, '/', '_', 0x00, 0xFF
RareBytes == {9, 11, 12, 13, 8, 14, 47, 95, 0, 255}

PaddedTexts ==
    UNION {{Padded(BaseText(n), k) : k \in 0..(IF n < MaxPads THEN n ELSE MaxPads)} :
           n \in 0..MaxTextLen}

\* one byte replaced
EditedTexts ==
    UNION {{[t EXCEPT ![p] = x] : p \in 1..Len(t), x \in EditBytes} : t \in PaddedTexts}
    \cup UNION {{[t EXCEPT ![p] = x] : p \in 1..Len(t), x \in RareBytes} :
                t \in {u \in PaddedTexts : Len(u) <= MaxShortText}}

\* two bytes replaced, the second by '#'
TwiceEditedTexts ==
    UNION {UNION {{[BaseText(n) EXCEPT ![p] = x, ![q] = 35] : p \in 1..(q - 1), x \in {35, 32}} :
                  q \in 1..n} : n \in 0..MaxTextLen}

\* a run of '=' put anywhere
RunTexts ==
    UNION {{[i \in 1..n |-> IF i >= p /\ i < p + r THEN PAD ELSE AlphaChar(i)] :
            p \in 1..n, r \in 1..(MaxPads + 1)} : n \in 0..MaxTextLen}

\* "Zg", "Zg==", "Zm8=", "Zm9v", "A===", "Zg#="
VectorTexts ==
    {<<90, 103>>, <<90, 103, 61, 61>>, <<90, 109, 56, 61>>, <<90, 109, 57, 118>>,
     <<65, 61, 61, 61>>, <<90, 103, 35, 61>>}

Texts == PaddedTexts \cup EditedTexts \cup TwiceEditedTexts \cup RunTexts \cup VectorTexts

DecodeConfigs ==
    {STANDARD, MIME, URL_SAFE, URL_SAFE_NO_PAD,
     ConfigNew("UrlSafe", FALSE, TRUE, Wrap(MaxWidth, "LF"))}

InitDecode ==
    /\ input = <<>>
    /\ config \in DecodeConfigs
    /\ text \in Texts
    /\ prior = <<>>
    /\ buffer = prior
    /\ result = NoResult
    /\ pc = "text"
    /\ wrap_in = NoWrapIn
    /\ wrap_out = NoParams
    /\ encoded_buf = LineWrapEntry(<<>>)
    /\ line_num = 0
    /\ plain = <<>>
    /\ size_in = NoSizeIn
    /\ size_out = NoSizeOut
    /\ config_args = NoConfig
    /\ encode_out = NoEncodeOut

\* decode_config_buf(text, config, &mut buffer)
DecodeConfigBuf ==
    /\ pc = "text"
    /\ \E d \in {decode_config_buf(text, config, buffer)}, overflow_checks \in BOOLEAN :
         /\ result' = IF d.overflow /\ overflow_checks THEN Panicked ELSE d.res
         /\ buffer' = IF d.overflow /\ overflow_checks THEN buffer ELSE d.buf
    /\ pc' = "decoded"
    /\ UNCHANGED <<input, config, text, prior, wrap_in, wrap_out, reflowVars, plain, sizeVars, config_args, encode_out>>

NextDecode == DecodeConfigBuf

SpecDecode == InitDecode /\ [][NextDecode]_vars

(***************************************************************************)
(* The calls: decode_config_buf on a buffer that already holds bytes.      *)
(***************************************************************************)
\* what the buffer holds before the call: 0..MaxPrior bytes, a zero among them
Priors == {[i \in 1..k |-> ((i - 1) * 37) % 256] : k \in 0..MaxPrior}

\* the padded texts, the same with one byte turned into '#', the texts with a run of
\* '=', the vectors
AppendTexts ==
    PaddedTexts
    \cup UNION {{[t EXCEPT ![p] = 35] : p \in 1..Len(t)} : t \in PaddedTexts}
    \cup RunTexts \cup VectorTexts

InitAppend ==
    /\ input = <<>>
    /\ config \in {STANDARD, MIME}
    /\ text \in AppendTexts
    /\ prior \in Priors
    /\ buffer = prior
    /\ result = NoResult
    /\ pc = "text"
    /\ wrap_in = NoWrapIn
    /\ wrap_out = NoParams
    /\ encoded_buf = LineWrapEntry(<<>>)
    /\ line_num = 0
    /\ plain = <<>>
    /\ size_in = NoSizeIn
    /\ size_out = NoSizeOut
    /\ config_args = NoConfig
    /\ encode_out = NoEncodeOut

SpecAppend == InitAppend /\ [][NextDecode]_vars

(***************************************************************************)
(* The calls: decode_config_buf on texts of every size, in a build that    *)
(* checks arithmetic overflow and in one that wraps.                       *)
(***************************************************************************)
\* a text of n bytes: '#', then 'A's
LongText(n) == [i \in 1..n |-> IF i = 1 THEN 35 ELSE 65]

\* the texts on either side of the largest length whose triple is a usize
LongTexts == {LongText(n) : n \in ((USIZE_MAX \div 3) - 1)..((USIZE_MAX \div 3) + 2)}

InitDecodeLong ==
    /\ input = <<>>
    /\ \/ /\ config \in {STANDARD, URL_SAFE_NO_PAD}
          /\ text \in LongTexts
       \/ /\ config \in {STANDARD, URL_SAFE_NO_PAD, MIME}
          /\ text \in AppendTexts
    /\ prior = <<>>
    /\ buffer = prior
    /\ result = NoResult
    /\ pc = "text"
    /\ wrap_in = NoWrapIn
    /\ wrap_out = NoParams
    /\ encoded_buf = LineWrapEntry(<<>>)
    /\ line_num = 0
    /\ plain = <<>>
    /\ size_in = NoSizeIn
    /\ size_out = NoSizeOut
    /\ config_args = NoConfig
    /\ encode_out = NoEncodeOut

SpecDecodeLong == InitDecodeLong /\ [][NextDecode]_vars

(***************************************************************************)
(* The calls: encode_config_buf on a String that may already hold text.    *)
(***************************************************************************)
\* inputs of every length up to MaxBufInput
BufInputs == {[i \in 1..n |-> StreamByte(0, i)] : n \in 0..MaxBufInput}

\* inputs whose encoding fills one line of MIME, two lines, or a little more or less
MimeBufInputs == {[i \in 1..n |-> StreamByte(1, i)] : n \in {56, 57, 58, 113, 114, 115}}

\* the String before the call: empty, "x", "xy=\n"
BufPriors == {<<>>, <<120>>, <<120, 121, 61, 10>>}

InitEncodeBuf ==
    /\ \/ /\ input \in BufInputs
          /\ config \in Configs
       \/ /\ input \in MimeBufInputs
          /\ config \in {MIME, ConfigNew("UrlSafe", FALSE, FALSE, Wrap(76, "LF"))}
    /\ prior \in BufPriors
    /\ text = prior
    /\ buffer = <<>>
    /\ result = NoResult
    /\ pc = "buf"
    /\ wrap_in = NoWrapIn
    /\ wrap_out = NoParams
    /\ encoded_buf = LineWrapEntry(<<>>)
    /\ line_num = 0
    /\ plain = <<>>
    /\ size_in = NoSizeIn
    /\ size_out = NoSizeOut
    /\ config_args = NoConfig
    /\ encode_out = NoEncodeOut

\* encode_config_buf(input, config, buf), buf being text
EncodeConfigBuf ==
    /\ pc = "buf"
    /\ \E e \in {encode_config_buf(input, config, text)} :
         /\ text' = e.buf
         /\ encode_out' = [panic |-> e.panic, sized |-> e.sized, oob |-> e.oob,
                           encoded_size |-> e.encoded_size,
                           output_bytes_written |-> e.output_bytes_written,
                           written |-> e.written]
         /\ pc' = IF e.panic THEN "panicked" ELSE "appended"
    /\ UNCHANGED <<input, config, prior, buffer, result, wrap_in, wrap_out, reflowVars,
                   plain, sizeVars, config_args>>

NextEncodeBuf == EncodeConfigBuf

SpecEncodeBuf == InitEncodeBuf /\ [][NextEncodeBuf]_vars

(***************************************************************************)
(* The calls: line_wrap_parameters.                                        *)
(***************************************************************************)
InitWrap ==
    /\ input = <<>>
    /\ config = STANDARD
    /\ text = <<>>
    /\ prior = <<>>
    /\ buffer = <<>>
    /\ result = NoResult
    /\ pc = "wrap"
    /\ wrap_in \in [input_len : 0..MaxInputLen, line_len : 0..MaxLineLen,
                    line_ending : LineEndings]
    /\ wrap_out = NoParams
    /\ encoded_buf = LineWrapEntry(<<>>)
    /\ line_num = 0
    /\ plain = <<>>
    /\ size_in = NoSizeIn
    /\ size_out = NoSizeOut
    /\ config_args = NoConfig
    /\ encode_out = NoEncodeOut

\* line_wrap_parameters(input_len, line_len, line_ending)
LineWrapParameters ==
    /\ pc = "wrap"
    /\ LET p == line_wrap_parameters(wrap_in.input_len, wrap_in.line_len,
                                     wrap_in.line_ending) IN
         /\ wrap_out' = p
         /\ pc' = IF p.panic THEN "panicked" ELSE "sized"
    /\ UNCHANGED <<input, config, text, prior, buffer, result, wrap_in, reflowVars, plain, sizeVars, config_args, encode_out>>

NextWrap == LineWrapParameters

SpecWrap == InitWrap /\ [][NextWrap]_vars

(***************************************************************************)
(* The calls: line_wrap, one block at a time.                              *)
(***************************************************************************)
\* byte i of the unwrapped content: no two bytes alike, none a CR or an LF
ContentByte(i) == 32 + (i % 200)

Content(n) == [i \in 1..n |-> ContentByte(i)]

\* the buffer the caller hands to line_wrap: the content, then room up to the wrapped
\* length and slack bytes more
CallerBuf(n, line_len, line_ending, slack) ==
    LET p == line_wrap_parameters(n, line_len, line_ending) IN
    Content(n) \o Fill((IF p.panic THEN 0 ELSE p.total_len - n) + slack, Uninit)

InitLineWrap ==
    /\ input = <<>>
    /\ config = STANDARD
    /\ text = <<>>
    /\ prior = <<>>
    /\ buffer = <<>>
    /\ result = NoResult
    /\ pc = "reflow"
    /\ wrap_in \in [input_len : 0..MaxReflowLen, line_len : 1..MaxReflowWidth,
                    line_ending : LineEndings]
    /\ wrap_out = NoParams
    /\ \E slack \in 0..MaxSlack :
           encoded_buf = LineWrapEntry(CallerBuf(wrap_in.input_len, wrap_in.line_len,
                                                 wrap_in.line_ending, slack))
    /\ line_num = 0
    /\ plain = <<>>
    /\ size_in = NoSizeIn
    /\ size_out = NoSizeOut
    /\ config_args = NoConfig
    /\ encode_out = NoEncodeOut

\* line_wrap up to its loop: the parameters, the assertion, the move of the last line
LineWrapMoveLastLine ==
    /\ pc = "reflow"
    /\ LET p == line_wrap_parameters(wrap_in.input_len, wrap_in.line_len,
                                     wrap_in.line_ending)
           moved == LineWrapLenIsize(LineWrapLastLine(encoded_buf, p, wrap_in.line_len),
                                     wrap_in.line_len)
       IN /\ wrap_out' = p
          /\ encoded_buf' = moved
          /\ pc' = IF moved.panic THEN "panicked" ELSE "lines"
    /\ line_num' = 0
    /\ UNCHANGED <<input, config, text, prior, buffer, result, wrap_in, plain, sizeVars, config_args, encode_out>>

\* one round of the loop of line_wrap
LineWrapNextLine ==
    /\ pc = "lines"
    /\ line_num < wrap_out.lines_with_endings
    /\ LET st == LineWrapLine(encoded_buf, line_num, wrap_out, wrap_in.line_len,
                              wrap_in.line_ending)
       IN /\ encoded_buf' = st
          /\ pc' = IF st.panic THEN "panicked" ELSE "lines"
    /\ line_num' = line_num + 1
    /\ UNCHANGED <<input, config, text, prior, buffer, result, wrap_in, wrap_out, plain, sizeVars, config_args, encode_out>>

\* the end of line_wrap: the assertion, then the return of line_ending_bytes
LineWrapReturn ==
    /\ pc = "lines"
    /\ ~(line_num < wrap_out.lines_with_endings)
    /\ LET st == LineWrapAssert(wrap_out, encoded_buf)
       IN /\ encoded_buf' = st
          /\ pc' = IF st.panic THEN "panicked" ELSE "wrapped"
    /\ UNCHANGED <<input, config, text, prior, buffer, result, wrap_in, wrap_out, line_num, plain, sizeVars, config_args, encode_out>>

NextLineWrap == LineWrapMoveLastLine \/ LineWrapNextLine \/ LineWrapReturn

SpecLineWrap == InitLineWrap /\ [][NextLineWrap]_vars

(***************************************************************************)
(* The calls: encode_config under MIME and under STANDARD of the same      *)
(* bytes.                                                                  *)
(***************************************************************************)
MimeInputs == {[i \in 1..n |-> StreamByte(1, i)] : n \in 0..MaxMimeLen}

InitMime ==
    /\ input \in MimeInputs
    /\ config = MIME
    /\ text = <<>>
    /\ prior = <<>>
    /\ buffer = <<>>
    /\ result = NoResult
    /\ pc = "both"
    /\ wrap_in = NoWrapIn
    /\ wrap_out = NoParams
    /\ encoded_buf = LineWrapEntry(<<>>)
    /\ line_num = 0
    /\ plain = <<>>
    /\ size_in = NoSizeIn
    /\ size_out = NoSizeOut
    /\ config_args = NoConfig
    /\ encode_out = NoEncodeOut

\* encode_config(input, MIME); pc names the calls still to make
EncodeMime ==
    /\ pc \in {"both", "mime"}
    /\ LET e == encode_config(input, MIME) IN
         /\ text' = e.buf
         /\ pc' = IF e.panic THEN "panicked"
                  ELSE IF pc = "both" THEN "standard" ELSE "compared"
    /\ UNCHANGED <<input, config, prior, buffer, result, wrap_in, wrap_out, reflowVars, plain, sizeVars, config_args, encode_out>>

\* encode_config(input, STANDARD)
EncodeStandard ==
    /\ pc \in {"both", "standard"}
    /\ LET e == encode_config(input, STANDARD) IN
         /\ plain' = e.buf
         /\ pc' = IF e.panic THEN "panicked"
                  ELSE IF pc = "both" THEN "mime" ELSE "compared"
    /\ UNCHANGED <<input, config, text, prior, buffer, result, wrap_in, wrap_out, reflowVars, sizeVars, config_args, encode_out>>

NextMime == EncodeMime \/ EncodeStandard

SpecMime == InitMime /\ [][NextMime]_vars

(***************************************************************************)
(* The calls: the sizing of encode_config_buf, on lengths up to the        *)
(* largest usize.                                                          *)
(***************************************************************************)
\* the lengths within SizeEdge of c
SizeWindow(c) ==
    {L \in (c - SizeEdge)..(c + SizeEdge) : L >= 0 /\ L <= USIZE_MAX}

\* the widths of the sizing: small ones, MIME's, and the largest two
SizeWidths == {1, 2, 3, 76, USIZE_MAX - 1, USIZE_MAX}

\* the number of bytes whose encoding has about n characters
BytesOfChars(n) == (n \div 4) * 3

\* the number of characters that wrapped at width w come to about the largest usize
CharsAtLimit(w, ending) ==
    IF w > 76 THEN USIZE_MAX
    ELSE (USIZE_MAX \div (w + LineEndingLen(ending))) * w

SizeLens ==
    SizeWindow(0) \cup SizeWindow(USIZE_MAX)
    \cup UNION {SizeWindow(BytesOfChars(CharsAtLimit(w, e))) :
                w \in SizeWidths, e \in LineEndings}

\* the arguments given to Config::new: any of them on the short inputs, the line wraps
\* of every width on the long ones
SizeLineWraps == {NoWrap} \cup {Wrap(w, e) : w \in {0} \cup SizeWidths, e \in LineEndings}

ConfigArgs(char_sets, strips) ==
    [char_set : char_sets, pad : BOOLEAN, strip_whitespace : strips,
     line_wrap : SizeLineWraps]

\* the Configs that are statics of the crate
Presets == {STANDARD, MIME, URL_SAFE, URL_SAFE_NO_PAD}

InitSize ==
    /\ input = <<>>
    /\ text = <<>>
    /\ prior = <<>>
    /\ buffer = <<>>
    /\ result = NoResult
    /\ wrap_in = NoWrapIn
    /\ wrap_out = NoParams
    /\ encoded_buf = LineWrapEntry(<<>>)
    /\ line_num = 0
    /\ plain = <<>>
    /\ \/ /\ pc = "new"
          /\ config = NoConfig
          /\ \/ /\ config_args \in ConfigArgs({"Standard"}, {FALSE})
                /\ \/ size_in \in [bytes_len : SizeLens, orig_buf_len : {0, 1}]
                   \/ size_in \in [bytes_len : SizeWindow(0),
                                   orig_buf_len : SizeWindow(USIZE_MAX)]
             \/ /\ config_args \in ConfigArgs(CharacterSets, BOOLEAN)
                /\ size_in \in [bytes_len : SizeWindow(0), orig_buf_len : {0}]
       \/ /\ pc = "size"
          /\ config \in Presets
          /\ config_args = config
          /\ size_in \in [bytes_len : SizeLens, orig_buf_len : {0, 1}]
    /\ size_out = NoSizeOut
    /\ encode_out = NoEncodeOut

\* Config::new(char_set, pad, strip_whitespace, input_line_wrap)
ConfigNewCall ==
    /\ pc = "new"
    /\ config' = ConfigNew(config_args.char_set, config_args.pad,
                           config_args.strip_whitespace, config_args.line_wrap)
    /\ pc' = "size"
    /\ UNCHANGED <<input, text, prior, buffer, result, wrap_in, wrap_out, reflowVars,
                   plain, sizeVars, config_args, encode_out>>

\* the sizing of encode_config_buf for an input of bytes_len bytes and a String of
\* orig_buf_len bytes: encoded_size, then the length set_len is given; sizing_calls
\* holds the arguments of the call of line_wrap_parameters, if there was one
EncodeSizing ==
    /\ pc = "size"
    /\ LET size == encoded_size(size_in.bytes_len, config)
           expanded == ExpandedLen(size_in.orig_buf_len, size)
           no_wrap == EncodedLenNoWrap(size_in.bytes_len, config)
           sized == config.line_wrap.wrap /\ no_wrap.some
       IN /\ size_out' =
                 [panic |-> ~expanded.some,
                  encoded_size |-> size.v,
                  expanded |-> expanded.v,
                  params |-> IF sized
                             THEN line_wrap_parameters(no_wrap.v, config.line_wrap.line_len,
                                                       config.line_wrap.ending)
                             ELSE NoParams,
                  sizing_calls |-> IF sized
                                   THEN <<[input_len |-> no_wrap.v,
                                           line_len |-> config.line_wrap.line_len,
                                           line_ending |-> config.line_wrap.ending]>>
                                   ELSE <<>>]
          /\ pc' = IF ~expanded.some THEN "panicked" ELSE "reserved"
    /\ UNCHANGED <<input, config, text, prior, buffer, result, wrap_in, wrap_out,
                   reflowVars, plain, size_in, config_args, encode_out>>

NextSize == ConfigNewCall \/ EncodeSizing

SpecSize == InitSize /\ [][NextSize]_vars

(***************************************************************************)
(* Properties of encode_config and of the round trip.                      *)
(***************************************************************************)
\* the text holds a byte of a line ending
HasLineEnding(t) == \E i \in 1..Len(t) : t[i] \in {10, 13}

\* C1, as claimed: for every byte string and every Config, decoding the encoded text
\* under the same Config returns Ok with the bytes that were encoded.
C1_RoundTripEveryConfig ==
    pc = "decoded" => (result = Ok /\ buffer = input)

\* C1, amended: the round trip returns the encoded bytes whenever strip_whitespace is
\* set or the encoded text holds no line ending; a text with line endings decoded
\* without strip_whitespace is refused with InvalidByte.
C1_RoundTrip ==
    pc = "decoded" =>
        IF config.strip_whitespace \/ ~HasLineEnding(text)
        THEN result = Ok /\ buffer = input
        ELSE result.tag = "InvalidByte"

\* C1: a wrapped text with line endings, encoded through the fast loop, came back
C1_Witness ==
    /\ pc = "decoded"
    /\ config.line_wrap.wrap /\ config.strip_whitespace /\ HasLineEnding(text)
    /\ Len(input) >= 14
    /\ result = Ok /\ buffer = input

\* bit t (0 = the first, most significant) of a byte string
RefBit(data, t) == IF t < 8 * Len(data) THEN BitOf(data[(t \div 8) + 1], 7 - (t % 8)) ELSE 0

\* the k-th (from 0) 6-bit group of a byte string, zero-filled
RefGroup(data, k) ==
    32 * RefBit(data, 6 * k) + 16 * RefBit(data, 6 * k + 1) + 8 * RefBit(data, 6 * k + 2)
    + 4 * RefBit(data, 6 * k + 3) + 2 * RefBit(data, 6 * k + 4) + RefBit(data, 6 * k + 5)

\* RFC 4648: one alphabet character for each 6-bit group, then '=' up to a multiple of 4
RefBase64(data, alphabet) ==
    LET nchars == (8 * Len(data) + 5) \div 6
        total == ((nchars + 3) \div 4) * 4
    IN [k \in 1..total |-> IF k <= nchars THEN alphabet[RefGroup(data, k - 1)] ELSE 61]

\* C2: under the standard padded configuration encode_config returns the RFC 4648 text
\* of its input, whatever the length: "f" -> "Zg==", "fo" -> "Zm8=", "foo" -> "Zm9v".
C2_EncodeIsRfc4648 ==
    (pc # "start" /\ config = STANDARD) =>
        /\ pc # "panicked"
        /\ text = RefBase64(input, STANDARD_ENCODE)
        /\ (input = <<102>> => text = <<90, 103, 61, 61>>)
        /\ (input = <<102, 111>> => text = <<90, 109, 56, 61>>)
        /\ (input = <<102, 111, 111>> => text = <<90, 109, 57, 118>>)

\* C2: an input of 13 bytes went through the fast loop, the 3-byte loop and the
\* 1-byte remainder
C2_Witness ==
    /\ pc = "encoded" /\ config = STANDARD /\ Len(input) = 13
    /\ Len(text) = 20 /\ text[19] = 61 /\ text[18] # 61

\* the number of line-ending bytes put into n characters wrapped at width w
RefEndings(n, w, ending) ==
    IF n <= w THEN 0 ELSE ((n - 1) \div w) * (IF ending = "LF" THEN 1 ELSE 2)

\* the length of the encoding of L bytes
RefEncodedLen(L, cfg) ==
    LET r == IF L % 3 = 0 THEN 0 ELSE IF L % 3 = 1 THEN 2 ELSE 3
        pads == IF cfg.pad THEN (3 - (L % 3)) % 3 ELSE 0
        n == 4 * (L \div 3) + r + pads
    IN n + (IF cfg.line_wrap.wrap
            THEN RefEndings(n, cfg.line_wrap.line_len, cfg.line_wrap.ending) ELSE 0)

\* C8: the text encode_config returns for L bytes has 4*(L/3) + {0,2,3} characters,
\* plus (3 - L%3)%3 pad characters under pad, plus the line endings under Wrap; it is
\* empty for L = 0.
C8_EncodedLength ==
    pc # "start" =>
        /\ pc # "panicked"
        /\ Len(text) = RefEncodedLen(Len(input), config)
        /\ (input = <<>> => text = <<>>)

\* C8: a padded, wrapped text with its line endings counted
C8_Witness ==
    /\ pc = "encoded" /\ config.pad /\ config.line_wrap.wrap
    /\ config.line_wrap.ending = "CRLF" /\ Len(input) % 3 = 1
    /\ Len(text) > 4 * (Len(input) \div 3) + 4

(***************************************************************************)
(* Properties of decode_config_buf.                                        *)
(***************************************************************************)
\* the bytes of an alphabet: letters, digits and the two characters of the set
RefAlphabet(char_set) ==
    (65..90) \cup (97..122) \cup (48..57)
    \cup (IF char_set = "Standard" THEN {43, 47} ELSE {45, 95})

\* space, LF, tab, CR, vertical tab, form feed
RefWhitespace == {32, 10, 9, 13, 11, 12}

RECURSIVE RefStrip(_)
RefStrip(t) ==
    IF t = <<>> THEN <<>>
    ELSE IF Head(t) \in RefWhitespace THEN RefStrip(Tail(t))
    ELSE <<Head(t)>> \o RefStrip(Tail(t))

\* the text the decoder looks at
Seen == IF config.strip_whitespace THEN RefStrip(text) ELSE text

\* the bytes the call appended to the buffer
Decoded == SubSeq(buffer, Len(prior) + 1, Len(buffer))

\* where the trailing chunk of a text of n bytes starts
RefFullChunks(n) == IF n = 0 THEN 0 ELSE IF n % 8 = 0 THEN n - 8 ELSE n - (n % 8)

\* the indices (from 0) of the bytes of t outside the alphabet
RefBad(t) == {i \in 0..(Len(t) - 1) : t[i + 1] \notin RefAlphabet(config.char_set)}

RefMin(S) == CHOOSE i \in S : \A j \in S : i <= j

\* C3: decoding does not look at Config.pad or Config.line_wrap: under every Config
\* with the same char_set and strip_whitespace the result is the same; "Zg" and
\* "Zg==" both decode to "f" under padded and unpadded Configs alike.
C3_DecodeIgnoresPad ==
    pc = "decoded" =>
        /\ \A p \in BOOLEAN :
             LET w == IF config.line_wrap.wrap THEN NoWrap ELSE Wrap(76, "CRLF")
                 d == decode_config(text, ConfigNew(config.char_set, p,
                                                    config.strip_whitespace, w))
             IN d.res = result /\ (result = Ok => d.bytes = Decoded)
        /\ (text \in {<<90, 103>>, <<90, 103, 61, 61>>} => (result = Ok /\ Decoded = <<102>>))

\* C3: "Zg", without padding, decoded under the padded standard Config
C3_Witness ==
    /\ pc = "decoded" /\ config = STANDARD /\ text = <<90, 103>>
    /\ result = Ok /\ buffer = <<102>>

\* C4: a text without '=' that holds a byte outside the alphabet is refused with
\* InvalidByte(i, b), i the smallest index of such a byte in the text the decoder looks
\* at and b that byte, in the fast path and in the trailing chunk alike.
C4_FirstInvalidByte ==
    pc = "decoded" =>
        ((RefBad(Seen) # {} /\ \A i \in 1..Len(Seen) : Seen[i] # 61) =>
            result = InvalidByte(RefMin(RefBad(Seen)), Seen[RefMin(RefBad(Seen)) + 1]))

\* C4: two bytes outside the alphabet in a trailing chunk of 5 bytes: the first is
\* reported, and no InvalidLength
C4_Witness ==
    /\ pc = "decoded" /\ ~config.strip_whitespace /\ Len(text) = 13
    /\ text[10] = 32 /\ text[12] = 35
    /\ result = InvalidByte(9, 32)

\* no byte before index i (from 0) of t makes the decoder return: alphabet bytes with no
\* '=' before them, and '=' of the trailing chunk at quad position 2 or 3
RefPriorOk(t, i) ==
    \A j \in 0..(i - 1) :
        \/ /\ t[j + 1] \in RefAlphabet(config.char_set)
           /\ \A l \in 0..(j - 1) : t[l + 1] # 61
        \/ /\ t[j + 1] = 61
           /\ j % 4 >= 2
           /\ j >= RefFullChunks(Len(t))

\* C5: a '=' at index i with i mod 4 in {0, 1}, no byte before it making the decoder
\* return, is refused with InvalidByte(i, '='); "A===" with InvalidByte(1, '=').
C5_MisplacedPad ==
    pc = "decoded" =>
        /\ \A i \in 0..(Len(Seen) - 1) :
             (Seen[i + 1] = 61 /\ i % 4 < 2 /\ RefPriorOk(Seen, i)) => result = InvalidByte(i, 61)
        /\ (text = <<65, 61, 61, 61>> => result = InvalidByte(1, 61))

\* C5: "A===" was decoded
C5_Witness ==
    /\ pc = "decoded" /\ text = <<65, 61, 61, 61>> /\ result = InvalidByte(1, 61)

\* index p (from 0) holds the first '=' of t, in the trailing chunk at quad position 2
\* or 3, and every byte before it is of the alphabet
RefPadAccepted(t, p) ==
    /\ t[p + 1] = 61
    /\ p % 4 >= 2
    /\ p >= RefFullChunks(Len(t))
    /\ \A j \in 0..(p - 1) : t[j + 1] \in RefAlphabet(config.char_set)

\* C6, as claimed: once a '=' was accepted at offset p of the trailing chunk, any later
\* byte other than '=' makes the decoder return InvalidByte(p, '=').
C6_AnyByteAfterPad ==
    pc = "decoded" =>
        \A p \in 0..(Len(Seen) - 1), q \in 0..(Len(Seen) - 1) :
            (RefPadAccepted(Seen, p) /\ q > p /\ Seen[q + 1] # 61)
                => result = InvalidByte(p, 61)

\* C6, amended: once a '=' was accepted at offset p of the trailing chunk, the next byte
\* other than '=' makes the decoder return InvalidByte(p, '='), unless a '=' at quad
\* position 0 or 1 comes before that byte.
C6_ByteAfterPad ==
    pc = "decoded" =>
        \A p \in 0..(Len(Seen) - 1), q \in 0..(Len(Seen) - 1) :
            (/\ RefPadAccepted(Seen, p) /\ q > p /\ Seen[q + 1] # 61
             /\ \A j \in (p + 1)..(q - 1) : Seen[j + 1] = 61 /\ j % 4 >= 2)
                => result = InvalidByte(p, 61)

\* C6: a '=' at offset 10, after one fast chunk, and a letter after it
C6_Witness ==
    /\ pc = "decoded" /\ Len(Seen) = 12
    /\ RefPadAccepted(Seen, 10) /\ Seen[12] \in RefAlphabet(config.char_set)
    /\ result = InvalidByte(10, 61)

\* no byte of t makes the decoder return InvalidByte: alphabet bytes, then nothing but
\* '=' of the trailing chunk at quad positions 2 and 3
RefNoInvalidByte(t) == RefPriorOk(t, Len(t))

\* the number of bytes of the trailing chunk of t other than '='
RefMorsels(t) ==
    Cardinality({i \in RefFullChunks(Len(t))..(Len(t) - 1) : t[i + 1] # 61})

\* the bytes m morsels of the trailing chunk give
RefContribution(m) ==
    CASE m = 0 -> 0 [] m = 2 -> 1 [] m = 3 -> 2 [] m = 4 -> 3
      [] m = 6 -> 4 [] m = 7 -> 5 [] m = 8 -> 6 [] OTHER -> -1

\* C7: when no byte makes the decoder return InvalidByte, it returns InvalidLength
\* exactly when the trailing chunk holds 1 or 5 bytes other than '=', and otherwise Ok,
\* the trailing chunk giving 0, 1, 2, 3, 4, 5, 6 bytes for 0, 2, 3, 4, 6, 7, 8 of them;
\* a text of n alphabet bytes gives InvalidLength iff n mod 4 = 1, else (3n)/4 bytes.
C7_InvalidLength ==
    (pc = "decoded" /\ RefNoInvalidByte(Seen)) =>
        LET m == RefMorsels(Seen)
            n == Len(Seen)
        IN /\ (result = InvalidLength) <=> (m \in {1, 5})
           /\ m \notin {1, 5} =>
                /\ result = Ok
                /\ Len(Decoded) = 6 * (RefFullChunks(n) \div 8) + RefContribution(m)
           /\ (\A i \in 1..n : Seen[i] # 61) =>
                /\ (result = InvalidLength) <=> (n % 4 = 1)
                /\ n % 4 # 1 => Len(Decoded) = (3 * n) \div 4

\* C7: 13 alphabet bytes: a trailing chunk of 5
C7_Witness ==
    /\ pc = "decoded" /\ Len(Seen) = 13 /\ RefBad(Seen) = {}
    /\ result = InvalidLength

\* C9: under strip_whitespace the call gives what it gives without strip_whitespace on
\* the text with the six whitespace bytes removed, offsets counted in that text;
\* without strip_whitespace a whitespace byte after alphabet bytes is refused with
\* InvalidByte at its index.
C9_StripWhitespace ==
    pc = "decoded" =>
        /\ config.strip_whitespace =>
             LET d == decode_config_buf(RefStrip(text),
                                        [config EXCEPT !.strip_whitespace = FALSE], prior)
             IN result = d.res /\ buffer = d.buf
        /\ ~config.strip_whitespace =>
             \A i \in 0..(Len(text) - 1) :
                 (/\ text[i + 1] \in RefWhitespace
                  /\ \A j \in 0..(i - 1) : text[j + 1] \in RefAlphabet(config.char_set))
                     => result = InvalidByte(i, text[i + 1])

\* C9: a space before a '#': the '#' is reported at its index in the stripped text
C9_Witness ==
    /\ pc = "decoded" /\ config.strip_whitespace /\ Len(text) = 10
    /\ text[3] = 32 /\ text[10] = 35
    /\ result = InvalidByte(8, 35)

(***************************************************************************)
(* Properties of line_wrap_parameters.                                     *)
(***************************************************************************)
\* C10: for a width w > 0, n <= w gives no ended line, a last line of n and a total of
\* n; n > w gives n/w ended lines (n/w - 1 when w divides n) and a last line of n mod w
\* (w when w divides n), with lines*w + last = n, the ended lines taking
\* lines*(w + ending), the endings lines*ending and the total n + endings; 100 at
\* width 20 with LF gives 4 ended lines, a last line of 20 and a total of 104.
C10_LineWrapParameters ==
    (pc # "wrap" /\ wrap_in.line_len > 0) =>
        LET n == wrap_in.input_len
            w == wrap_in.line_len
            e == IF wrap_in.line_ending = "LF" THEN 1 ELSE 2
            r == wrap_out
        IN /\ pc = "sized"
           /\ n <= w =>
                /\ r.lines_with_endings = 0
                /\ r.last_line_len = n
                /\ r.total_len = n
           /\ n > w =>
                /\ r.lines_with_endings = (IF n % w > 0 THEN n \div w ELSE (n \div w) - 1)
                /\ r.last_line_len = (IF n % w > 0 THEN n % w ELSE w)
           /\ r.lines_with_endings * w + r.last_line_len = n
           /\ r.total_full_wrapped_lines_len = r.lines_with_endings * (w + e)
           /\ r.total_line_endings_len = r.lines_with_endings * e
           /\ r.total_len = n + r.total_line_endings_len
           /\ (n = 100 /\ w = 20 /\ e = 1) =>
                (r.lines_with_endings = 4 /\ r.last_line_len = 20 /\ r.total_len = 104)

\* C10: the sizing of 100 characters at width 20 with LF
C10_Witness ==
    /\ pc = "sized"
    /\ wrap_in = [input_len |-> 100, line_len |-> 20, line_ending |-> "LF"]
    /\ wrap_out.lines_with_endings = 4 /\ wrap_out.total_len = 104

(***************************************************************************)
(* Properties of line_wrap.                                                *)
(***************************************************************************)
\* the number of lines that end with a line ending when n bytes are cut into lines of w
RefEndedLines(n, w) == IF n <= w THEN 0 ELSE (n - 1) \div w

\* the lines of the wrapped buffer: ended line k (from 0) starts at k * (w + ending
\* length), holds bytes k * w .. k * w + w - 1 of the content and then the ending; the
\* final line follows the last ended line, holds the len remaining bytes and no ending
RefLinesAre(mem, n, w, ending, len) ==
    LET el == LineEndingLen(ending)
        full == RefEndedLines(n, w)
    IN /\ len = n - full * w
       /\ Len(mem) >= n + full * el
       /\ \A k \in 0..(full - 1) :
            /\ \A j \in 0..(w - 1) : mem[k * (w + el) + j + 1] = ContentByte(k * w + j + 1)
            /\ Slice(mem, k * (w + el) + w, k * (w + el) + w + el) = LineEndingBytes(ending)
       /\ \A j \in 0..(len - 1) : mem[full * (w + el) + j + 1] = ContentByte(full * w + j + 1)

\* the wrapped text with its CR and LF bytes deleted
RefDeleteEndings(t) == SelectSeq(t, LAMBDA b : b \notin {10, 13})

\* what C11 says of a call that returned, the final line having len bytes
RefReflowed(len) ==
    LET n == wrap_in.input_len
        w == wrap_in.line_len
        el == LineEndingLen(wrap_in.line_ending)
        full == RefEndedLines(n, w)
    IN /\ wrap_out.total_len = n + full * el
       /\ RefLinesAre(encoded_buf.mem, n, w, wrap_in.line_ending, len)
       /\ encoded_buf.line_ending_bytes = full * el
       /\ encoded_buf.line_ending_bytes = wrap_out.total_line_endings_len
       /\ RefDeleteEndings(Slice(encoded_buf.mem, 0, wrap_out.total_len)) = Content(n)

\* C11, as claimed: line_wrap leaves the content cut into lines of exactly w bytes, each
\* followed by the ending, then a final line of 1..w bytes without an ending; it
\* returns the number of ending bytes, and deleting the endings gives back the content.
C11_FinalLineNeverEmpty ==
    pc = "wrapped" =>
        \E len \in 1..wrap_in.line_len : RefReflowed(len)

\* C11, amended: as claimed for n > 0; for n = 0 the final line is empty, nothing is
\* written and 0 is returned.
C11_LineWrap ==
    pc = "wrapped" =>
        IF wrap_in.input_len = 0
        THEN /\ RefReflowed(0)
             /\ encoded_buf.line_ending_bytes = 0
             /\ encoded_buf.written = {}
        ELSE \E len \in 1..wrap_in.line_len : RefReflowed(len)

\* a call that returned after it wrote endings and moved a partial final line
C11_Witness ==
    /\ pc = "wrapped"
    /\ wrap_in.input_len = 23
    /\ wrap_in.line_len = 5
    /\ wrap_in.line_ending = "CRLF"
    /\ encoded_buf.line_ending_bytes = 8
    /\ Len(encoded_buf.mem) = 31

\* the block that line_wrap is about to copy: the last line before the loop, full line
\* line_num in the loop
RefBlock ==
    IF pc = "reflow"
    THEN LET p == line_wrap_parameters(wrap_in.input_len, wrap_in.line_len,
                                       wrap_in.line_ending)
         IN [src |-> LastLineStart(p, wrap_in.line_len).v, dst |-> NewLastLineStart(p).v,
             len |-> p.last_line_len]
    ELSE [src |-> LineStartOffset(wrap_out, line_num, wrap_in.line_len).v,
          dst |-> LineStartOffset(wrap_out, line_num, wrap_in.line_len).v
                  + EndingsBeforeLine(wrap_out, line_num, wrap_in.line_ending).v,
          len |-> wrap_in.line_len]

\* a block is about to be copied
RefCopyAhead == pc = "reflow" \/ (pc = "lines" /\ line_num < wrap_out.lines_with_endings)

\* the block copied last: the last line when the loop starts, else full line line_num - 1
RefCopied ==
    IF line_num = 0
    THEN [src |-> LastLineStart(wrap_out, wrap_in.line_len).v,
          dst |-> NewLastLineStart(wrap_out).v,
          len |-> wrap_out.last_line_len]
    ELSE [src |-> LineStartOffset(wrap_out, line_num - 1, wrap_in.line_len).v,
          dst |-> LineStartOffset(wrap_out, line_num - 1, wrap_in.line_len).v
                  + EndingsBeforeLine(wrap_out, line_num - 1, wrap_in.line_ending).v,
          len |-> wrap_in.line_len]

\* C19: whenever line_wrap is about to copy a block (the last line first, then the full
\* lines from last to first), the block's source still holds the unwrapped bytes, every
\* write made so far went to offsets at or beyond the end of that source, and the
\* block's destination is not below its source; and once a block is copied its
\* destination holds the bytes its source held, also when the two ranges overlap.
C19_BackToFront ==
    /\ RefCopyAhead =>
         /\ \A i \in RefBlock.src..(RefBlock.src + RefBlock.len - 1) :
                encoded_buf.mem[i + 1] = ContentByte(i + 1)
         /\ \A o \in encoded_buf.written : o >= RefBlock.src + RefBlock.len
         /\ RefBlock.dst >= RefBlock.src
    /\ pc = "lines" =>
         \A j \in 0..(RefCopied.len - 1) :
             encoded_buf.mem[RefCopied.dst + j + 1] = ContentByte(RefCopied.src + j + 1)

\* line_wrap about to copy a full line, after earlier writes, to a destination that
\* overlaps the source
C19_Witness ==
    /\ pc = "lines"
    /\ line_num >= 2
    /\ line_num < wrap_out.lines_with_endings
    /\ encoded_buf.written # {}
    /\ RefBlock.dst > RefBlock.src
    /\ RefBlock.dst < RefBlock.src + RefBlock.len

(***************************************************************************)
(* Properties of encode_config under MIME.                                 *)
(***************************************************************************)
\* the text is cut into lines of exactly width characters, each followed by CR LF,
\* and a last line of 1..width characters that no ending follows
RefCrLfLines(t, width) ==
    /\ \A i \in 1..Len(t) :
         /\ t[i] = 13 <=> (i - 1) % (width + 2) = width
         /\ t[i] = 10 <=> (i - 1) % (width + 2) = width + 1
    /\ Len(t) > 0 => t[Len(t)] \notin {10, 13}

\* C12: with its CR LF line endings removed the text of encode_config(data, MIME) is
\* the text of encode_config(data, STANDARD), characters, order and padding alike, and
\* every line of the MIME text but the last has exactly 76 characters.
C12_MimeIsWrappedStandard ==
    pc = "compared" =>
        /\ RefDeleteEndings(text) = plain
        /\ RefDeleteEndings(plain) = plain
        /\ RefCrLfLines(text, 76)

\* both texts of an input whose MIME text has two ended lines and padding
C12_Witness ==
    /\ pc = "compared"
    /\ Len(input) = 118
    /\ Len(plain) = 160
    /\ Len(text) = 164
    /\ plain[160] = PAD

(***************************************************************************)
(* Properties of the sizing of encode_config_buf.                          *)
(***************************************************************************)
\* the number of characters and pad characters of the encoding of L bytes
RefUnwrappedLen(L, cfg) ==
    4 * (L \div 3) + (IF L % 3 = 0 THEN 0 ELSE IF cfg.pad THEN 4 ELSE (L % 3) + 1)

RefIsUsize(x) == x >= 0 /\ x <= USIZE_MAX

\* C13: the sizing of encode_config_buf either panics or computes the exact sizes: the
\* size reserved is the length of the encoding, the String's new length is its old
\* length plus that, the line wrap parameters are the exact ones, and each of these
\* numbers is a usize, none of them a wrapped or truncated one.
C13_ExactSizeOrPanic ==
    pc = "reserved" =>
        LET L == size_in.bytes_len
            n == RefUnwrappedLen(L, config)
            w == config.line_wrap.line_len
            el == LineEndingLen(config.line_wrap.ending)
            lines == IF config.line_wrap.wrap THEN RefEndedLines(n, w) ELSE 0
        IN /\ ~size_out.panic
           /\ size_out.encoded_size = RefEncodedLen(L, config)
           /\ size_out.encoded_size = n + lines * el
           /\ size_out.expanded = size_in.orig_buf_len + size_out.encoded_size
           /\ RefIsUsize(size_out.encoded_size)
           /\ RefIsUsize(size_out.expanded)
           /\ config.line_wrap.wrap =>
                /\ ~size_out.params.panic
                /\ size_out.params.lines_with_endings = lines
                /\ size_out.params.last_line_len = n - lines * w
                /\ size_out.params.total_full_wrapped_lines_len = lines * (w + el)
                /\ size_out.params.total_line_endings_len = lines * el
                /\ size_out.params.total_len = n + lines * el
                /\ \A f \in {"lines_with_endings", "last_line_len",
                             "total_full_wrapped_lines_len", "total_line_endings_len",
                             "total_len"} : RefIsUsize(size_out.params[f])

\* a wrapped size that is exactly the largest usize
C13_Witness ==
    /\ pc = "reserved"
    /\ config.line_wrap.wrap
    /\ size_out.params.lines_with_endings > 0
    /\ size_out.encoded_size = USIZE_MAX
    /\ size_out.expanded = USIZE_MAX

(***************************************************************************)
(* Properties of Config.                                                   *)
(***************************************************************************)
\* C14: a Config, built by Config::new or a preset, has no line wrap or one of a width
\* above 0; Config::new gives NoWrap for a width of 0 and keeps every other argument;
\* and line_wrap_parameters is never called with a line width of 0.
C14_WidthAboveZero ==
    pc # "new" =>
        /\ config.line_wrap.wrap => config.line_wrap.line_len > 0
        /\ config.char_set = config_args.char_set
        /\ config.pad = config_args.pad
        /\ config.strip_whitespace = config_args.strip_whitespace
        /\ config.line_wrap =
               (IF config_args.line_wrap.wrap /\ config_args.line_wrap.line_len = 0
                THEN NoWrap ELSE config_args.line_wrap)
        /\ \A i \in 1..Len(size_out.sizing_calls) : size_out.sizing_calls[i].line_len > 0

\* Config::new was given a width of 0 and the sizing ran on an input that is not empty
C14_Witness ==
    /\ pc = "reserved"
    /\ config_args.line_wrap.wrap
    /\ config_args.line_wrap.line_len = 0
    /\ config_args.line_wrap.ending = "CRLF"
    /\ size_in.bytes_len > 0
    /\ ~config.line_wrap.wrap
    /\ size_out.sizing_calls = <<>>

(***************************************************************************)
(* Properties of the buffer of decode_config_buf.                          *)
(***************************************************************************)
\* the value of a character of the alphabet
RefValue(b, char_set) == CHOOSE v \in 0..63 : encode_table(char_set)[v] = b

\* bit p (from 0) of the bit string the characters cs stand for, 6 bits each
RefTextBit(cs, p, char_set) == BitOf(RefValue(cs[(p \div 6) + 1], char_set), 5 - (p % 6))

\* the bytes a text of alphabet characters and '=' stands for: the whole bytes of the
\* bit string of its characters
RefDecode(t, char_set) ==
    LET cs == SelectSeq(t, LAMBDA b : b # PAD) IN
    [k \in 1..((6 * Len(cs)) \div 8) |->
        RefTextBit(cs, 8 * (k - 1), char_set) * 128
        + RefTextBit(cs, 8 * (k - 1) + 1, char_set) * 64
        + RefTextBit(cs, 8 * (k - 1) + 2, char_set) * 32
        + RefTextBit(cs, 8 * (k - 1) + 3, char_set) * 16
        + RefTextBit(cs, 8 * (k - 1) + 4, char_set) * 8
        + RefTextBit(cs, 8 * (k - 1) + 5, char_set) * 4
        + RefTextBit(cs, 8 * (k - 1) + 6, char_set) * 2
        + RefTextBit(cs, 8 * (k - 1) + 7, char_set)]

\* C15: when decode_config_buf returns Ok on a buffer that held the bytes P, the
\* buffer holds P followed by the decoded bytes, which are the bytes decode_config
\* returns for the text and the bytes the text stands for: P is kept, and neither the
\* two bytes of overhang nor a filler byte stays.
C15_AppendsToPrior ==
    (pc = "decoded" /\ result = Ok) =>
        /\ buffer = prior \o decode_config(text, config).bytes
        /\ buffer = prior \o RefDecode(Seen, config.char_set)
        /\ SubSeq(buffer, 1, Len(prior)) = prior
        /\ Len(buffer) = Len(prior) + (6 * Cardinality({i \in 1..Len(Seen) : Seen[i] # PAD})) \div 8

\* a padded text of a full chunk and a trailing chunk decoded after three bytes
C15_Witness ==
    /\ pc = "decoded"
    /\ result = Ok
    /\ Len(prior) = 3
    /\ Len(text) = 15
    /\ text[14] # PAD
    /\ text[15] = PAD
    /\ Len(buffer) = 3 + 10

\* C16: when decode_config_buf returns a DecodeError the buffer is as it was before
\* the call.
C16_BufferKeptOnError ==
    (pc = "decoded" /\ result.tag \in {"InvalidByte", "InvalidLength"}) => buffer = prior

(***************************************************************************)
(* Properties of the writes of encode_config_buf.                          *)
(***************************************************************************)
\* C17: encode_config_buf fails no slice check and no assertion once the size is
\* computed; every write of encode_to_slice, add_padding and line_wrap is at an offset
\* below encoded_size of the region after the String's original length; the number of
\* bytes written is encoded_size, which is the length of the encoding with its line
\* endings; the String ends up as its old text followed by encoded_size bytes, each
\* of them written.
C17_WritesStayInReservedRegion ==
    pc \in {"appended", "panicked"} =>
        LET n == RefUnwrappedLen(Len(input), config)
            lines == IF config.line_wrap.wrap
                     THEN RefEndedLines(n, config.line_wrap.line_len) ELSE 0
        IN /\ encode_out.sized
           /\ ~encode_out.panic
           /\ ~encode_out.oob
           /\ encode_out.written \subseteq 0..(encode_out.encoded_size - 1)
           /\ encode_out.written = 0..(encode_out.output_bytes_written - 1)
           /\ encode_out.output_bytes_written = encode_out.encoded_size
           /\ encode_out.encoded_size = n + lines * LineEndingLen(config.line_wrap.ending)
           /\ Len(text) = Len(prior) + encode_out.encoded_size
           /\ SubSeq(text, 1, Len(prior)) = prior
           /\ \A i \in 1..Len(text) : text[i] # Uninit

\* a padded encoding of three lines with CRLF, written by the fast loop, the 3-byte
\* loop and the remainder, after a String of four bytes
C17_Witness ==
    /\ pc = "appended"
    /\ Len(prior) = 4
    /\ Len(input) = 25
    /\ config.pad
    /\ config.line_wrap = Wrap(4, "CRLF")
    /\ encode_out.encoded_size = 36 + 8 * 2
    /\ Len(text) = 4 + 52

(***************************************************************************)
(* Properties of the totality of decode_config_buf.                        *)
(***************************************************************************)
\* the fast loop's part of n filtered bytes is a multiple of 8, and what it leaves is
\* 1..8 bytes of a text that is not empty, 8 of them when n is a multiple of 8
RefChunking(n) ==
    LET full == LengthOfFullChunks(n) IN
    /\ full % 8 = 0
    /\ full >= 0
    /\ full = RefFullChunks(n)
    /\ n = 0 => full = 0
    /\ n > 0 => n - full \in 1..8
    /\ (n > 0 /\ n % 8 = 0) => n - full = 8

\* C18: decode_config_buf returns Ok or a DecodeError for every text and Config, it
\* never panics: no slice read or write out of bounds, no underflow of the truncate,
\* no more than 8 morsels in the trailing chunk, no shift below 0, no arithmetic
\* overflow; and the fast loop takes a multiple of 8 bytes and leaves 1..8.
C18_DecodeTotal ==
    pc = "decoded" =>
        /\ result.tag \in {"Ok", "InvalidByte", "InvalidLength"}
        /\ RefChunking(Len(Seen))

\* for the texts whose length times 3 is a usize the call returns Ok or a DecodeError,
\* and the chunking is the stated one
DecodeTotalBelowOverflow ==
    (pc = "decoded" /\ Len(Seen) * 3 <= USIZE_MAX) =>
        /\ result.tag \in {"Ok", "InvalidByte", "InvalidLength"}
        /\ RefChunking(Len(Seen))

====
